---- MODULE Spec2Model ----
(***************************************************************************)
(* ComparisonLayer (lib/CustomLayer.ts, latest revision): a Mapbox GL      *)
(* custom layer that overlays a raster source, together with the host map, *)
(* the overlay source, the tile cache and the WebGL context it talks to.   *)
(*                                                                         *)
(* Every uniform1f value is a rational kept as its numerator over          *)
(* OffsetDen, so that offset * width is computed exactly.                  *)
(***************************************************************************)
EXTENDS Integers, Sequences, FiniteSets, TLC

\* ------------------------------------------------------------------ bounds
\* How many times the host adds the layer (map.addLayer) in one behaviour:
\* the controller is attach-once; a larger bound also covers re-attachment.
MaxAttach == 1
\* Tile ids the tile cache can report as visible: 1..MaxTiles.
MaxTiles == 2

\* ------------------------------------------------------------- value sets
\* JavaScript null / undefined, and the falsy handle WebGL returns on failure.
NULL == 0
\* The host map and its rendering context (the only ones of the behaviour).
TheMap == 1
TheGl == 1
\* The host's tile cache for the overlay source (style._sourceCaches[...]).
TheCache == 1

\* Offsets are fractions with this denominator (0.25 == 1, 0.5 == 2, 1 == 4).
OffsetDen == 4
\* Offsets the application supplies, as <<offsetX, offsetY>> numerators; the
\* core validates nothing, so values above 1 and below 0 are included.
OffsetChoices == { <<0, 0>>, <<2, 1>>, <<4, 4>>, <<5, 0 - 1>> }
Offset(p) == [offsetX |-> p[1], offsetY |-> p[2]]
\* Container sizes getBoundingClientRect() reports.
Sizes == { <<800, 400>>, <<400, 800>> }
\* window.devicePixelRatio values.
PixelRatios == { 1, 2 }
\* Diagnostic texts of the shader compiler / program linker.
InfoLogs == { "ERROR: 0:1: syntax error", "ERROR: varying mismatch" }
\* sourceDataType discriminators of a source 'data' event.
DataTypes == { "content", "metadata", "visibility" }

\* How the WebGL context answers one run of setupLayer: the first step that
\* fails, "bufNull" (createBuffer returns null, which setupLayer does not
\* check), or "ok".
SetupOutcomes ==
    { "vsNull", "vsCompile", "fsNull", "fsCompile", "progNull", "link",
      "bufNull", "ok" }

Tiles == 1 .. MaxTiles

\* --------------------------------------------------------------- helpers
RECURSIVE SortedSeq(_)
\* The elements of a finite set of integers in increasing order.
SortedSeq(S) ==
    IF S = {} THEN << >>
    ELSE LET m == CHOOSE x \in S : \A y \in S : x <= y
         IN  << m >> \o SortedSeq(S \ {m})

\* The lists getVisibleCoordinates() can return: distinct tile ids in the
\* cache's order.
VisibleLists == { SortedSeq(S) : S \in SUBSET Tiles }

\* One call on the rendering context: function, symbolic argument, object
\* handle argument (or returned handle for create*), numeric argument.
Call(fn, name, obj, v) == [fn |-> fn, name |-> name, obj |-> obj, v |-> v]

\* An Error thrown out of a handler: message template and interpolated text.
Err(msg, info) == [msg |-> msg, info |-> info]
NoError == Err("", "")
TypeError == Err("TypeError", "")

\* The program object: its handle and the vertexBuffer field set on it.
Program(id, vb) == [id |-> id, vertexBuffer |-> vb]
NoProgram == Program(NULL, NULL)

VARIABLES
    \* ComparisonLayer fields
    map, gl, tileSource, program, sourceCache, data, mapWidth, mapHeight,
    observer, preRenderCallback,
    \* host map / overlay source / tile cache / window
    inStyle, attaches, binds, mapListeners, srcListeners, sourceRegistered,
    observing, visible, loaded,
    \* WebGL context: every object ever created, by handle
    objs,
    \* what the last handler did
    last

ctrl == << map, gl, tileSource, program, sourceCache, data, mapWidth,
           mapHeight, observer, preRenderCallback >>
host == << inStyle, attaches, binds, mapListeners, srcListeners,
           sourceRegistered, observing, visible, loaded >>
vars == << ctrl, host, objs, last >>

\* The record of one handler run: its name, the rendering-context calls it
\* issued, what it threw, how often it asked the tile cache to update and
\* queried its visible coordinates, how many repaints it requested, how many
\* registered listeners ran, and the tile lists handed to the render and
\* pre-render hooks (<< >> when the hook did not run, else << tiles >>);
\* for onAdd also how the rendering context answered (`input`). `arg` holds
\* what came in from outside or went out to a hook: the offset passed to
\* updateData or to the render hook, the container size measured or passed
\* to the render hook, the discriminator of a data event. `steps` is the
\* statement order of onRemove, `frag` one run of the fragment stage.
NoInput == [out |-> "", info |-> ""]
NoArg == [data |-> Offset(<< 0, 0 >>), width |-> 0, height |-> 0, type |-> ""]
NoFrag == [x |-> 0, y |-> 0, dpr |-> 0, kept |-> FALSE]
Last(op, calls, thrown, updates, queries, repaints, handlers, rhook, phook) ==
    [ op |-> op, input |-> NoInput, glCalls |-> calls, thrown |-> thrown,
      cacheUpdates |-> updates, cacheQueries |-> queries,
      repaints |-> repaints, handlers |-> handlers,
      renderHook |-> rhook, preHook |-> phook,
      arg |-> NoArg, steps |-> << >>, frag |-> NoFrag ]

\* ------------------------------------------------------- WebGL context
\* The object a create* call makes.
GlObject(kind, stage) == [kind |-> kind, stage |-> stage, alive |-> TRUE, dels |-> 0]

\* The context's object table after one call: create* with a non-null result
\* adds the object under the next handle, delete* counts one release of its
\* object, every other call leaves the table alone.
glStep(table, c) ==
    CASE c.fn = "createShader" /\ c.obj # NULL -> Append(table, GlObject("shader", c.name))
      [] c.fn = "createProgram" /\ c.obj # NULL -> Append(table, GlObject("program", ""))
      [] c.fn = "createBuffer" /\ c.obj # NULL -> Append(table, GlObject("buffer", ""))
      [] c.fn \in {"deleteShader", "deleteProgram", "deleteBuffer"} /\ c.obj \in DOMAIN table ->
            [table EXCEPT ![c.obj] = [@ EXCEPT !.alive = FALSE, !.dels = @ + 1]]
      [] OTHER -> table

RECURSIVE glApply(_, _)
\* The object table after a sequence of calls.
glApply(table, calls) ==
    IF calls = << >> THEN table
    ELSE glApply(glStep(table, Head(calls)), Tail(calls))

\* Handles of the live objects of a kind.
Alive(table, kind) ==
    { h \in DOMAIN table : table[h].kind = kind /\ table[h].alive }

\* ------------------------------------------------ setupLayer (default hook)
\* createShader(type) ... compileShader: the calls up to the compile check.
compileCalls(stage, sh) ==
    << Call("createShader", stage, sh, 0),
       Call("shaderSource", stage, sh, 0),
       Call("compileShader", stage, sh, 0) >>

\* Vertex shader failed to compile.
vertexCompileFailure(vs, info) ==
    [ calls  |-> << Call("deleteShader", "", vs, 0) >>,
      thrown |-> Err("[shader] vertex shader compilation failed: ", info) ]

\* createShader(FRAGMENT_SHADER) returned null.
fragmentCreateFailure(vs) ==
    [ calls  |-> << Call("deleteShader", "", vs, 0) >>,
      thrown |-> Err("[shader] failed to create fragment shader", "") ]

\* Mutant: the fragment-compile failure path forgets the vertex shader.
fragmentCompileFailure_LeaksVertex(vs, fs, info) ==
    [ calls  |-> << Call("deleteShader", "", fs, 0) >>,
      thrown |-> Err("[shader] fragment shader compilation failed: ", info) ]

\* Fragment shader failed to compile.
fragmentCompileFailure(vs, fs, info) ==
    [ calls  |-> << Call("deleteShader", "", vs, 0),
                    Call("deleteShader", "", fs, 0) >>,
      thrown |-> Err("[shader] fragment shader compilation failed: ", info) ]

\* createProgram() returned null.
programCreateFailure(vs, fs) ==
    [ calls  |-> << >>,
      thrown |-> Err("[program] failed to create program", "") ]

\* attachShader x 2, linkProgram.
linkCalls(pg, vs, fs) ==
    << Call("createProgram", "", pg, 0),
       Call("attachShader", "", vs, 0),
       Call("attachShader", "", fs, 0),
       Call("linkProgram", "", pg, 0) >>

\* Mutant: the link failure path releases the shaders but not the program.
linkFailure_LeaksProgram(pg, vs, fs, info) ==
    [ calls  |-> << Call("deleteShader", "", vs, 0),
                    Call("deleteShader", "", fs, 0) >>,
      thrown |-> Err("[program] shader program linking failed: ", info) ]

\* LINK_STATUS is false.
linkFailure(pg, vs, fs, info) ==
    [ calls  |-> << Call("deleteProgram", "", pg, 0),
                    Call("deleteShader", "", vs, 0),
                    Call("deleteShader", "", fs, 0) >>,
      thrown |-> Err("[program] shader program linking failed: ", info) ]

\* Mutant: after a successful link the program is released (in place of the
\* shaders that are no longer needed) and still returned.
linkSuccess_DeletesProgram(pg, vs, fs, bf, d, dpr) ==
    << Call("validateProgram", "", pg, 0),
       Call("deleteProgram", "", pg, 0),
       Call("createBuffer", "", bf, 0),
       Call("bindBuffer", "ARRAY_BUFFER", bf, 0),
       Call("bufferData", "ARRAY_BUFFER", 0, 12),
       Call("useProgram", "", pg, 0),
       Call("uniform1f", "uOffsetX", 0, d.offsetX),
       Call("uniform1f", "uOffsetY", 0, d.offsetY),
       Call("uniform1f", "uDevicePixelRatio", 0, dpr * OffsetDen) >>

\* After a successful link: validate, create and fill the vertex buffer (bf
\* is NULL when createBuffer returns null), set the initial uniforms.
linkSuccess(pg, vs, fs, bf, d, dpr) ==
    << Call("validateProgram", "", pg, 0),
       Call("createBuffer", "", bf, 0),
       Call("bindBuffer", "ARRAY_BUFFER", bf, 0),
       Call("bufferData", "ARRAY_BUFFER", 0, 12),
       Call("useProgram", "", pg, 0),
       Call("uniform1f", "uOffsetX", 0, d.offsetX),
       Call("uniform1f", "uOffsetY", 0, d.offsetY),
       Call("uniform1f", "uDevicePixelRatio", 0, dpr * OffsetDen) >>

\* One run of setupLayer on a context that already holds n objects and
\* answers as `out` says: the calls issued, the error thrown (NoError when it
\* returns) and the program returned.
setupLayer(out, info, n, d, dpr) ==
    LET vs == n + 1
        fs == n + 2
        pg == n + 3
        bf == IF out = "bufNull" THEN NULL ELSE n + 4
        vsOk == compileCalls("VERTEX_SHADER", vs)
        fsOk == vsOk \o compileCalls("FRAGMENT_SHADER", fs)
        fail(pre, f) == [calls |-> pre \o f.calls, thrown |-> f.thrown,
                         program |-> NoProgram]
    IN CASE out = "vsNull" ->
              [ calls |-> << Call("createShader", "VERTEX_SHADER", NULL, 0) >>,
                thrown |-> Err("[shader] failed to create vertex shader", ""),
                program |-> NoProgram ]
         [] out = "vsCompile" -> fail(vsOk, vertexCompileFailure(vs, info))
         [] out = "fsNull" ->
              fail(vsOk \o << Call("createShader", "FRAGMENT_SHADER", NULL, 0) >>,
                   fragmentCreateFailure(vs))
         [] out = "fsCompile" -> fail(fsOk, fragmentCompileFailure(vs, fs, info))
         [] out = "progNull" ->
              fail(fsOk \o << Call("createProgram", "", NULL, 0) >>,
                   programCreateFailure(vs, fs))
         [] out = "link" ->
              fail(fsOk \o linkCalls(pg, vs, fs), linkFailure(pg, vs, fs, info))
         [] OTHER ->
              [ calls |-> fsOk \o linkCalls(pg, vs, fs)
                               \o linkSuccess(pg, vs, fs, bf, d, dpr),
                thrown |-> NoError,
                program |-> Program(pg, bf) ]

\* A tile cache whose tiles never expose a texture.
getTile_NoTexture(t, ld) ==
    [ id |-> t, texture |-> NULL, projMatrix |-> 200 + t ]

\* -------------------------------------------------- render (default hook)
\* The tile object the cache returns for a visible coordinate: its texture
\* (absent until loaded) and its own projection matrix.
getTile(t, ld) ==
    [ id |-> t, texture |-> IF t \in ld THEN 100 + t ELSE NULL,
      projMatrix |-> 200 + t ]

RECURSIVE MapTiles(_, _)
\* A map over the visible coordinates that yields the tiles last to first.
MapTiles_Reversed(coords, ld) ==
    [ i \in 1 .. Len(coords) |-> getTile(coords[Len(coords) + 1 - i], ld) ]

\* getVisibleCoordinates().map(tileid => getTile(tileid))
MapTiles(coords, ld) ==
    IF coords = << >> THEN << >>
    ELSE << getTile(Head(coords), ld) >> \o MapTiles(Tail(coords), ld)

\* Mutant: the forEach callback without its missing-texture early return.
renderTile_NoSkip(tile, prog) ==
    << Call("activeTexture", "TEXTURE0", 0, 0),
       Call("bindTexture", "TEXTURE_2D", tile.texture, 0),
       Call("bindBuffer", "ARRAY_BUFFER", prog.vertexBuffer, 0),
       Call("uniformMatrix4fv", "uMatrix", tile.projMatrix, 0),
       Call("uniform1i", "uTexture", 0, 0),
       Call("drawArrays", "TRIANGLES", 0, 6) >>

\* The body of the forEach callback for one tile.
renderTile(tile, prog) ==
    IF tile.texture = NULL THEN << >>
    ELSE << Call("activeTexture", "TEXTURE0", 0, 0),
            Call("bindTexture", "TEXTURE_2D", tile.texture, 0),
            Call("texParameteri", "TEXTURE_WRAP_S", 0, 0),
            Call("texParameteri", "TEXTURE_WRAP_T", 0, 0),
            Call("texParameteri", "TEXTURE_MIN_FILTER", 0, 0),
            Call("texParameteri", "TEXTURE_MAG_FILTER", 0, 0),
            Call("bindBuffer", "ARRAY_BUFFER", prog.vertexBuffer, 0),
            Call("enableVertexAttribArray", "aPos", 0, 0),
            Call("vertexAttribPointer", "aPos", 0, 2),
            Call("uniformMatrix4fv", "uMatrix", tile.projMatrix, 0),
            Call("uniform1i", "uTexture", 0, 0),
            Call("depthFunc", "LESS", 0, 0),
            Call("drawArrays", "TRIANGLES", 0, 6) >>

RECURSIVE renderTiles(_, _)
\* tiles.forEach(...)
renderTiles(tiles, prog) ==
    IF tiles = << >> THEN << >>
    ELSE renderTile(Head(tiles), prog) \o renderTiles(Tail(tiles), prog)

\* The render hook of the revision without viewport sizes: the offsets go to
\* the uniforms as given.
render_RawOffsets(tiles, prog, d, width, height, dpr) ==
    << Call("useProgram", "", prog.id, 0),
       Call("uniform1f", "uOffsetX", 0, d.offsetX),
       Call("uniform1f", "uOffsetY", 0, d.offsetY),
       Call("uniform1f", "uDevicePixelRatio", 0, dpr * OffsetDen) >>
    \o renderTiles(tiles, prog)

\* A render hook that draws its tiles first and sets the uniforms after.
render_DrawsFirst(tiles, prog, d, width, height, dpr) ==
    << Call("useProgram", "", prog.id, 0) >>
    \o renderTiles(tiles, prog)
    \o << Call("uniform1f", "uOffsetX", 0, d.offsetX * width),
          Call("uniform1f", "uOffsetY", 0, d.offsetY * height),
          Call("uniform1f", "uDevicePixelRatio", 0, dpr * OffsetDen) >>

\* The default render hook: the calls it issues.
render(tiles, prog, d, width, height, dpr) ==
    << Call("useProgram", "", prog.id, 0),
       Call("uniform1f", "uOffsetX", 0, d.offsetX * width),
       Call("uniform1f", "uOffsetY", 0, d.offsetY * height),
       Call("uniform1f", "uDevicePixelRatio", 0, dpr * OffsetDen) >>
    \o renderTiles(tiles, prog)

\* ------------------------------------------------------- ComparisonLayer
\* method.bind(this): a new function object on every evaluation.
bind(method, serial) == [method |-> method, serial |-> serial]

\* Evented.on / Evented.off on the host map: off removes the listener that
\* is the very function passed, if it is registered.
on(listeners, ev, fn) == listeners \cup { [ev |-> ev, fn |-> fn] }
off(listeners, ev, fn) == listeners \ { [ev |-> ev, fn |-> fn] }

\* The same on the overlay source object src.
srcOn(listeners, src, fn) == listeners \cup { [src |-> src, fn |-> fn] }
srcOff(listeners, src, fn) == listeners \ { [src |-> src, fn |-> fn] }

\* Mutant: render guarded by the callback alone.
renderGuard_CallbackOnly(prog) == TRUE

\* ComparisonLayer.render's guard: this.renderCallback && this.program.
renderGuard(prog) == prog.id # NULL

\* Mutant: the GPU teardown releases the program and forgets its buffer.
onRemoveGl_KeepsBuffer(g, prog) ==
    IF g # NULL /\ prog.id # NULL
    THEN << Call("deleteProgram", "", prog.id, 0) >>
    ELSE << >>

\* onRemove's GPU teardown: the calls it issues.
onRemoveGl(g, prog) ==
    IF g # NULL /\ prog.id # NULL
    THEN (IF prog.vertexBuffer # NULL
          THEN << Call("deleteBuffer", "", prog.vertexBuffer, 0) >>
          ELSE << >>)
         \o << Call("deleteProgram", "", prog.id, 0) >>
    ELSE << >>

\* An onRemove that nulls its references first and tears down after.
onRemoveSteps_NullsFirst(m, ts, reg, obs, g, prog) ==
    << "map=null", "gl=null", "tileSource=null", "sourceCache=null" >>
    \o (IF g # NULL /\ prog.id # NULL
        THEN (IF prog.vertexBuffer # NULL THEN << "gl.deleteBuffer" >> ELSE << >>)
             \o << "gl.deleteProgram", "program=null" >>
        ELSE << >>)
    \o (IF m # NULL
        THEN << "map.off(move)", "map.off(zoom)" >>
             \o (IF ts # NULL THEN << "tileSource.off(data)" >> ELSE << >>)
             \o (IF reg THEN << "map.removeSource" >> ELSE << >>)
        ELSE << >>)
    \o (IF obs # NULL
        THEN << "observer.disconnect", "observer=null" >>
        ELSE << >>)

\* onRemove's statements in the order it runs them, given the fields and
\* the host's source registration it finds.
onRemoveSteps(m, ts, reg, obs, g, prog) ==
    (IF m # NULL
     THEN << "map.off(move)", "map.off(zoom)" >>
          \o (IF ts # NULL THEN << "tileSource.off(data)" >> ELSE << >>)
          \o (IF reg THEN << "map.removeSource" >> ELSE << >>)
     ELSE << >>)
    \o (IF obs # NULL
        THEN << "observer.disconnect", "observer=null" >>
        ELSE << >>)
    \o (IF g # NULL /\ prog.id # NULL
        THEN (IF prog.vertexBuffer # NULL THEN << "gl.deleteBuffer" >> ELSE << >>)
             \o << "gl.deleteProgram", "program=null" >>
        ELSE << >>)
    \o << "map=null", "gl=null", "tileSource=null", "sourceCache=null" >>

\* An onRemove that deletes the program but keeps its handle stored.
onRemoveProgram_Keeps(g, prog) == prog

\* this.program after onRemove's GPU teardown.
onRemoveProgram(g, prog) ==
    IF g # NULL /\ prog.id # NULL THEN NoProgram ELSE prog

\* ---------------------------------------------------------- the shaders
\* GLSL floats as fractions n/d with d > 0: division and the > test.
Frac(n, d) == [n |-> n, d |-> d]
FracDiv(a, b) == Frac(a.n * b.d, a.d * b.n)
FracGt(a, b) == a.n * b.d > b.n * a.d

\* gl_FragCoord is given in half pixels (pixel centres lie at i + 0.5).
FragDen == 2
\* Window coordinates of the fragments looked at: columns 399 and 802, rows
\* 99 and 402.
FragXs == { 799, 1605 }
FragYs == { 199, 805 }

\* The vertex shader's main, as far as the thresholds go: it hands the two
\* uniforms to the fragment stage unchanged.
vertexShader(uOffsetX, uOffsetY) ==
    [vOffsetX |-> Frac(uOffsetX, OffsetDen), vOffsetY |-> Frac(uOffsetY, OffsetDen)]

\* The fragment shader of the single-axis revision: it tests x only.
fragmentShader_XOnly(fx, fy, uDevicePixelRatio, v) ==
    LET ratio == Frac(uDevicePixelRatio, OffsetDen)
        x     == FracDiv(Frac(fx, FragDen), ratio)
    IN  ~ FracGt(x, v.vOffsetX)

\* The fragment shader's main for the fragment at gl_FragCoord (fx, fy):
\* TRUE when it writes gl_FragColor, FALSE when it discards.
fragmentShader(fx, fy, uDevicePixelRatio, v) ==
    LET ratio == Frac(uDevicePixelRatio, OffsetDen)
        x     == FracDiv(Frac(fx, FragDen), ratio)
        y     == FracDiv(Frac(fy, FragDen), ratio)
    IN  ~ (FracGt(x, v.vOffsetX) \/ FracGt(y, v.vOffsetY))

Init ==
    /\ map = NULL
    /\ gl = NULL
    /\ tileSource = NULL
    /\ program = NoProgram
    /\ sourceCache = NULL
    /\ \E p \in OffsetChoices : data = Offset(p)
    /\ mapWidth = 0
    /\ mapHeight = 0
    /\ observer = NULL
    /\ preRenderCallback \in BOOLEAN
    /\ inStyle = FALSE
    /\ attaches = 0
    /\ binds = 0
    /\ mapListeners = {}
    /\ srcListeners = {}
    /\ sourceRegistered = FALSE
    /\ observing = {}
    /\ visible = << >>
    /\ loaded = {}
    /\ objs = << >>
    /\ last = Last("constructor", << >>, NoError, 0, 0, 0, 0, << >>, << >>)

\* map.addLayer(layer): the host puts the layer into style._layers and calls
\* onAdd(map, gl), whose setup hook meets a context answering `out` and a
\* window of pixel ratio dpr, and which measures a container of size rect.
onAdd(out, info, dpr, rect) ==
    LET s   == setupLayer(out, info, Len(objs), data, dpr)
        src == attaches + 1
    IN  /\ ~inStyle
        /\ attaches < MaxAttach
        /\ inStyle' = TRUE
        /\ attaches' = attaches + 1
        /\ map' = TheMap
        /\ gl' = TheGl
        /\ mapListeners' = on(on(mapListeners, "move", bind("move", binds + 1)),
                              "zoom", bind("zoom", binds + 2))
        /\ sourceRegistered' = TRUE
        /\ tileSource' = src
        /\ srcListeners' = srcOn(srcListeners, src, bind("onData", binds + 3))
        /\ binds' = binds + 3
        /\ sourceCache' = TheCache
        /\ objs' = glApply(objs, s.calls)
        /\ IF s.thrown = NoError
           THEN /\ program' = s.program
                /\ mapWidth' = rect[1]
                /\ mapHeight' = rect[2]
                /\ observer' = src
                /\ observing' = observing \cup {src}
           ELSE UNCHANGED << program, mapWidth, mapHeight, observer, observing >>
        /\ last' = [ Last("onAdd", s.calls, s.thrown, 0, 0, 0, 0, << >>, << >>)
                      EXCEPT !.input = [out |-> out, info |-> info],
                             !.arg = IF s.thrown = NoError
                                     THEN [NoArg EXCEPT !.width = rect[1],
                                                        !.height = rect[2]]
                                     ELSE NoArg ]
        /\ UNCHANGED << data, preRenderCallback, visible, loaded >>

\* The body of onRemove, whoever calls it.
onRemoveBody ==
    LET calls    == onRemoveGl(gl, program)
        offData  == map # NULL /\ tileSource # NULL
        removeSrc == map # NULL /\ sourceRegistered
    IN  /\ mapListeners' =
              IF map # NULL
              THEN off(off(mapListeners, "move", bind("move", binds + 1)),
                       "zoom", bind("zoom", binds + 2))
              ELSE mapListeners
        /\ srcListeners' =
              IF offData
              THEN srcOff(srcListeners, tileSource, bind("onData", binds + 3))
              ELSE srcListeners
        /\ binds' = binds + (IF map # NULL THEN 2 ELSE 0) + (IF offData THEN 1 ELSE 0)
        /\ sourceRegistered' = IF removeSrc THEN FALSE ELSE sourceRegistered
        /\ visible' = IF removeSrc THEN << >> ELSE visible
        /\ loaded' = IF removeSrc THEN {} ELSE loaded
        /\ observing' = IF observer # NULL THEN observing \ {observer} ELSE observing
        /\ observer' = NULL
        /\ objs' = glApply(objs, calls)
        /\ program' = onRemoveProgram(gl, program)
        /\ map' = NULL
        /\ gl' = NULL
        /\ tileSource' = NULL
        /\ sourceCache' = NULL
        /\ last' = [ Last("onRemove", calls, NoError, 0, 0, 0, 0, << >>, << >>)
                      EXCEPT !.steps = onRemoveSteps(map, tileSource,
                                                     sourceRegistered, observer,
                                                     gl, program) ]
        /\ UNCHANGED << data, mapWidth, mapHeight, preRenderCallback, attaches >>

\* map.removeLayer(id): the host drops the layer and calls onRemove.
removeLayer ==
    /\ inStyle
    /\ inStyle' = FALSE
    /\ onRemoveBody

\* The application calls layer.onRemove() itself (a public method).
onRemove ==
    /\ inStyle' = inStyle
    /\ onRemoveBody

\* The tile cache keeps the textures of the tiles it still reports visible.
Retained(ld, coords) == { t \in ld : \E i \in DOMAIN coords : coords[i] = t }

\* updateTiles() run by n listeners in turn: it throws on an absent tile
\* cache (the first listener's TypeError ends the dispatch), else each run
\* asks the cache to update for the host's current transform.
updateTiles(n) ==
    IF n = 0 THEN [handlers |-> 0, updates |-> 0, thrown |-> NoError]
    ELSE IF sourceCache = NULL
         THEN [handlers |-> 1, updates |-> 0, thrown |-> TypeError]
         ELSE [handlers |-> n, updates |-> n, thrown |-> NoError]

\* The host map fires 'move': every listener registered for it runs move().
move ==
    LET n == Cardinality({ l \in mapListeners : l.ev = "move" })
        r == updateTiles(n)
    IN  /\ IF r.updates > 0 THEN visible' \in VisibleLists ELSE visible' = visible
        /\ loaded' = Retained(loaded, visible')
        /\ last' = Last("move", << >>, r.thrown, r.updates, 0, 0, r.handlers,
                        << >>, << >>)
        /\ UNCHANGED << ctrl, objs, inStyle, attaches, binds, mapListeners,
                        srcListeners, sourceRegistered, observing >>

\* The host map fires 'zoom': every listener registered for it runs zoom(),
\* whose body is empty.
zoom ==
    LET n == Cardinality({ l \in mapListeners : l.ev = "zoom" })
    IN  /\ last' = Last("zoom", << >>, NoError, 0, 0, 0, n, << >>, << >>)
        /\ UNCHANGED << ctrl, host, objs >>

\* An onData that refreshes the tiles on every data event.
onData_AnyType(type, t) ==
    LET n == Cardinality({ l \in srcListeners : l.src = attaches })
        r == updateTiles(n)
    IN  /\ sourceRegistered
        /\ t = 0 \/ (type = "content" /\ \E i \in DOMAIN visible : visible[i] = t)
        /\ IF r.updates > 0 THEN visible' \in VisibleLists ELSE visible' = visible
        /\ loaded' = Retained(IF t = 0 THEN loaded ELSE loaded \cup {t}, visible')
        /\ last' = [ Last("data", << >>, r.thrown, r.updates, 0, 0, r.handlers,
                           << >>, << >>)
                      EXCEPT !.arg = [NoArg EXCEPT !.type = type] ]
        /\ UNCHANGED << ctrl, objs, inStyle, attaches, binds, mapListeners,
                        srcListeners, sourceRegistered, observing >>

\* The registered overlay source fires 'data' with discriminator `type`; a
\* content event may come with the texture of a requested tile t (0: none).
onData(type, t) ==
    LET n == Cardinality({ l \in srcListeners : l.src = attaches })
        r == IF type = "content" THEN updateTiles(n)
             ELSE [handlers |-> n, updates |-> 0, thrown |-> NoError]
    IN  /\ sourceRegistered
        /\ t = 0 \/ (type = "content" /\ \E i \in DOMAIN visible : visible[i] = t)
        /\ IF r.updates > 0 THEN visible' \in VisibleLists ELSE visible' = visible
        /\ loaded' = Retained(IF t = 0 THEN loaded ELSE loaded \cup {t}, visible')
        /\ last' = [ Last("data", << >>, r.thrown, r.updates, 0, 0, r.handlers,
                           << >>, << >>)
                      EXCEPT !.arg = [NoArg EXCEPT !.type = type] ]
        /\ UNCHANGED << ctrl, objs, inStyle, attaches, binds, mapListeners,
                        srcListeners, sourceRegistered, observing >>

\* An onResize that refreshes the width only.
onResize_WidthOnly(size) ==
    LET fires == observing # {}
    IN  /\ mapWidth' = IF fires THEN size[1] ELSE mapWidth
        /\ mapHeight' = mapHeight
        /\ last' = [ Last("resize", << >>, NoError, 0, 0,
                           IF fires /\ map # NULL THEN 1 ELSE 0,
                           IF fires THEN 1 ELSE 0, << >>, << >>)
                      EXCEPT !.arg = IF fires
                                     THEN [NoArg EXCEPT !.width = size[1],
                                                        !.height = size[2]]
                                     ELSE NoArg ]
        /\ UNCHANGED << map, gl, tileSource, program, sourceCache, data,
                        observer, preRenderCallback, objs, inStyle, attaches,
                        binds, mapListeners, srcListeners, sourceRegistered,
                        observing, visible, loaded >>

\* The container is resized; every connected ResizeObserver runs
\* onResize(map), which measures a container of size `size`.
onResize(size) ==
    LET fires == observing # {}
    IN  /\ mapWidth' = IF fires THEN size[1] ELSE mapWidth
        /\ mapHeight' = IF fires THEN size[2] ELSE mapHeight
        /\ last' = [ Last("resize", << >>, NoError, 0, 0,
                           IF fires /\ map # NULL THEN 1 ELSE 0,
                           IF fires THEN 1 ELSE 0, << >>, << >>)
                      EXCEPT !.arg = IF fires
                                     THEN [NoArg EXCEPT !.width = size[1],
                                                        !.height = size[2]]
                                     ELSE NoArg ]
        /\ UNCHANGED << map, gl, tileSource, program, sourceCache, data,
                        observer, preRenderCallback, objs, inStyle, attaches,
                        binds, mapListeners, srcListeners, sourceRegistered,
                        observing, visible, loaded >>

\* An updateData that clamps each offset to the range 0..1 before storing.
updateData_Clamped(p) ==
    /\ data' = [ offsetX |-> IF p[1] < 0 THEN 0
                             ELSE IF p[1] > OffsetDen THEN OffsetDen ELSE p[1],
                 offsetY |-> IF p[2] < 0 THEN 0
                             ELSE IF p[2] > OffsetDen THEN OffsetDen ELSE p[2] ]
    /\ last' = [ Last("updateData", << >>, NoError, 0, 0,
                       IF map # NULL THEN 1 ELSE 0, 0, << >>, << >>)
                  EXCEPT !.arg = [NoArg EXCEPT !.data = Offset(p)] ]
    /\ UNCHANGED << map, gl, tileSource, program, sourceCache, mapWidth,
                    mapHeight, observer, preRenderCallback, host, objs >>

\* An updateData that also drops the stored program, to have it rebuilt.
updateData_DropsProgram(p) ==
    /\ data' = Offset(p)
    /\ program' = NoProgram
    /\ last' = [ Last("updateData", << >>, NoError, 0, 0,
                       IF map # NULL THEN 1 ELSE 0, 0, << >>, << >>)
                  EXCEPT !.arg = [NoArg EXCEPT !.data = Offset(p)] ]
    /\ UNCHANGED << map, gl, tileSource, sourceCache, mapWidth,
                    mapHeight, observer, preRenderCallback, host, objs >>

\* An updateData that calls triggerRepaint without looking at this.map.
updateData_AlwaysRepaints(p) ==
    /\ data' = Offset(p)
    /\ last' = [ Last("updateData", << >>,
                       IF map = NULL THEN TypeError ELSE NoError, 0, 0,
                       IF map # NULL THEN 1 ELSE 0, 0, << >>, << >>)
                  EXCEPT !.arg = [NoArg EXCEPT !.data = Offset(p)] ]
    /\ UNCHANGED << map, gl, tileSource, program, sourceCache, mapWidth,
                    mapHeight, observer, preRenderCallback, host, objs >>

\* updateData(data)
updateData(p) ==
    /\ data' = Offset(p)
    /\ last' = [ Last("updateData", << >>, NoError, 0, 0,
                       IF map # NULL THEN 1 ELSE 0, 0, << >>, << >>)
                  EXCEPT !.arg = [NoArg EXCEPT !.data = Offset(p)] ]
    /\ UNCHANGED << map, gl, tileSource, program, sourceCache, mapWidth,
                    mapHeight, observer, preRenderCallback, host, objs >>

\* prerender(gl, matrix)
prerender ==
    /\ last' =
          IF ~preRenderCallback
          THEN Last("prerender", << >>, NoError, 0, 0, 0, 0, << >>, << >>)
          ELSE IF sourceCache = NULL
          THEN Last("prerender", << >>, TypeError, 0, 0, 0, 0, << >>, << >>)
          ELSE Last("prerender", << >>, NoError, 0, 1, 0, 0, << >>,
                    << MapTiles(visible, loaded) >>)
    /\ UNCHANGED << ctrl, host, objs >>

\* ComparisonLayer.render(gl, matrix) with the default render hook, in a
\* window of pixel ratio dpr.
layerRender(dpr) ==
    LET tiles == MapTiles(visible, loaded)
        calls == render(tiles, program, data, mapWidth, mapHeight, dpr)
    IN  /\ last' =
              IF ~renderGuard(program)
              THEN Last("render", << >>, NoError, 0, 0, 0, 0, << >>, << >>)
              ELSE IF sourceCache = NULL
              THEN Last("render", << >>, TypeError, 0, 0, 0, 0, << >>, << >>)
              ELSE [ Last("render", calls, NoError, 0, 1, 0, 0, << tiles >>,
                          << >>)
                     EXCEPT !.arg = [NoArg EXCEPT !.data = data,
                                                  !.width = mapWidth,
                                                  !.height = mapHeight] ]
        /\ UNCHANGED << ctrl, host, objs >>

\* The value the last handler left in the float uniform `name`.
uniform(name) ==
    LET w == SelectSeq(last.glCalls,
                       LAMBDA c : c.fn = "uniform1f" /\ c.name = name)
    IN  w[Len(w)].v

\* The rendering context runs the program for one fragment (fx, fy) of a
\* triangle drawn by the render call just made, in a window of pixel ratio
\* dpr.
fragmentMain(dpr, fx, fy) ==
    /\ last.op = "render"
    /\ \E i \in DOMAIN last.glCalls : last.glCalls[i].fn = "drawArrays"
    /\ uniform("uDevicePixelRatio") = dpr * OffsetDen
    /\ last' = [ Last("fragment", << >>, NoError, 0, 0, 0, 0, << >>, << >>)
                  EXCEPT !.frag =
                     [ x |-> fx, y |-> fy, dpr |-> dpr,
                       kept |-> fragmentShader(fx, fy,
                                   uniform("uDevicePixelRatio"),
                                   vertexShader(uniform("uOffsetX"),
                                                uniform("uOffsetY"))) ] ]
    /\ UNCHANGED << ctrl, host, objs >>

Next ==
    \/ \E out \in SetupOutcomes, info \in InfoLogs, dpr \in PixelRatios,
          rect \in Sizes : onAdd(out, info, dpr, rect)
    \/ removeLayer
    \/ onRemove
    \/ move
    \/ zoom
    \/ \E type \in DataTypes, t \in {0} \cup Tiles : onData(type, t)
    \/ \E size \in Sizes : onResize(size)
    \/ \E p \in OffsetChoices : updateData(p)
    \/ prerender
    \/ \E dpr \in PixelRatios : layerRender(dpr)

Spec == Init /\ [][Next]_vars

\* The controller together with the fragment stage of its program.
ShadeNext ==
    \/ Next
    \/ \E dpr \in PixelRatios, fx \in FragXs, fy \in FragYs :
          fragmentMain(dpr, fx, fy)

ShadeSpec == Init /\ [][ShadeNext]_vars

\* Types of the controller's fields and of the context's object table.
TypeOK ==
    /\ map \in {NULL, TheMap}
    /\ gl \in {NULL, TheGl}
    /\ program.id \in {NULL} \cup DOMAIN objs
    /\ program.vertexBuffer \in {NULL} \cup DOMAIN objs
    /\ sourceCache \in {NULL, TheCache}
    /\ attaches \in 0 .. MaxAttach
    /\ visible \in VisibleLists
    /\ loaded \subseteq Tiles

\* ------------------------------------------------------------ properties
\* The calls of the last handler to the function fn.
CallsTo(fn) == SelectSeq(last.glCalls, LAMBDA c : c.fn = fn)

\* Handles of the objects the last handler created with fn.
CreatedBy(fn) ==
    { last.glCalls[i].obj :
        i \in { j \in DOMAIN last.glCalls :
                   last.glCalls[j].fn = fn /\ last.glCalls[j].obj # NULL } }

\* Handles of every object the last handler created.
CreatedNow == CreatedBy("createShader") \cup CreatedBy("createProgram")
              \cup CreatedBy("createBuffer")

\* The last handler was a detach that tore down a stored program, i.e. the
\* detach of a successfully attached controller.
DetachedAttached == last.op = "onRemove" /\ Len(CallsTo("deleteProgram")) = 1

\* C1: every run of the default setup hook that reaches the link step has
\* released each of its two shaders exactly once when it ends, whether the
\* link succeeded or failed; and after the detach of a successfully attached
\* controller the program and the vertex buffer have each been released
\* exactly once and no object of the context is still allocated.
C1_ResourceSymmetry ==
    /\ (last.op = "onAdd" /\ Len(CallsTo("linkProgram")) = 1)
          => \A h \in CreatedBy("createShader") : objs[h].dels = 1
    /\ DetachedAttached
          => /\ \A h \in DOMAIN objs :
                   objs[h].kind \in {"program", "buffer"} => objs[h].dels = 1
             /\ \A h \in DOMAIN objs : ~objs[h].alive

\* C2: after the detach of an attached controller no handler it registered
\* is still registered with the host map or the overlay source, and while
\* the controller is detached a move, zoom or data notification runs none.
C2_DetachUnregisters ==
    /\ DetachedAttached => mapListeners = {} /\ srcListeners = {}
    /\ (map = NULL /\ last.op \in {"move", "zoom", "data"}) => last.handlers = 0

\* C3: when the setup hook raises inside attach, the controller is left as
\* freshly constructed: no host, context, source, cache, program or observer
\* reference, no listener registered and no overlay source registered.
C3_FailedAttachLeavesDetached ==
    (last.op = "onAdd" /\ last.thrown # NoError)
       => /\ map = NULL /\ gl = NULL /\ tileSource = NULL
          /\ sourceCache = NULL /\ program = NoProgram /\ observer = NULL
          /\ mapListeners = {} /\ srcListeners = {}
          /\ ~sourceRegistered

\* C4: detach never raises and leaves no program or buffer allocated; a
\* detach that directly follows a detach, or that comes before any attach,
\* issues no call on the rendering context and changes nothing: not the
\* controller, not the context's objects, not the host's registrations.
C4_IdempotentDetach ==
    [][ last'.op = "onRemove"
          => /\ last'.thrown = NoError
             /\ Alive(objs', "program") = {}
             /\ Alive(objs', "buffer") = {}
             /\ (last.op = "onRemove" \/ attaches = 0)
                   => /\ last'.glCalls = << >>
                      /\ ctrl' = ctrl
                      /\ objs' = objs
                      /\ << mapListeners, srcListeners, sourceRegistered,
                            observing, visible, loaded >>'
                         = << mapListeners, srcListeners, sourceRegistered,
                              observing, visible, loaded >> ]_vars

\* C4 witness: a detach that released nothing, after an earlier detach had
\* released the vertex buffer.
C4_Witness ==
    /\ last.op = "onRemove"
    /\ last.glCalls = << >>
    /\ \E h \in DOMAIN objs : objs[h].kind = "buffer" /\ objs[h].dels = 1

\* C5: when createShader or createProgram returns no handle the setup hook
\* raises, and nothing it created earlier in that run is still allocated.
C5_CreationFailureReleasesAll ==
    (last.op = "onAdd" /\ last.input.out \in {"vsNull", "fsNull", "progNull"})
       => /\ last.thrown # NoError
          /\ \A h \in CreatedNow : ~objs[h].alive

\* C6: a vertex compile failure releases the vertex shader and raises an
\* error naming the vertex stage; a fragment compile failure releases both
\* shaders, creates no program, and raises an error naming the fragment
\* stage and carrying the compiler's diagnostic.
C6_CompileFailureCleanup ==
    /\ (last.op = "onAdd" /\ last.input.out = "vsCompile")
          => /\ Cardinality(CreatedBy("createShader")) = 1
             /\ \A h \in CreatedBy("createShader") :
                   objs[h].stage = "VERTEX_SHADER" /\ objs[h].dels = 1
             /\ last.thrown.msg = "[shader] vertex shader compilation failed: "
             /\ last.thrown.info = last.input.info
    /\ (last.op = "onAdd" /\ last.input.out = "fsCompile")
          => /\ { objs[h].stage : h \in CreatedBy("createShader") }
                   = {"VERTEX_SHADER", "FRAGMENT_SHADER"}
             /\ \A h \in CreatedBy("createShader") : objs[h].dels = 1
             /\ CallsTo("createProgram") = << >>
             /\ CreatedBy("createProgram") = {}
             /\ last.thrown.msg = "[shader] fragment shader compilation failed: "
             /\ last.thrown.info = last.input.info

\* C6 witness: an attach whose fragment shader failed to compile.
C6_Witness ==
    /\ last.op = "onAdd"
    /\ last.input.out = "fsCompile"
    /\ last.thrown.info = "ERROR: varying mismatch"

\* C7: a link failure releases the program and both shaders exactly once
\* each, creates no vertex buffer, raises an error carrying the linker's
\* diagnostic, and no program handle is stored on the controller.
C7_LinkFailureCleanup ==
    (last.op = "onAdd" /\ last.input.out = "link")
       => /\ Cardinality(CreatedBy("createShader")) = 2
          /\ Cardinality(CreatedBy("createProgram")) = 1
          /\ \A h \in CreatedBy("createShader") \cup CreatedBy("createProgram") :
                objs[h].dels = 1
          /\ CallsTo("createBuffer") = << >>
          /\ last.thrown.msg = "[program] shader program linking failed: "
          /\ last.thrown.info = last.input.info
          /\ program = NoProgram

\* C7 witness: an attach whose program failed to link.
C7_Witness ==
    /\ last.op = "onAdd"
    /\ last.input.out = "link"
    /\ Len(CallsTo("deleteProgram")) = 1

\* The controller is attached: onAdd ran to its end (the resize observer is
\* its last assignment) and onRemove has not run since.
Attached == observer # NULL

\* C8: at most one program of the controller is allocated at any time, while
\* the controller is attached exactly one is and it is the stored one, and
\* the render hook only ever runs with a program that is still allocated.
C8_OneLiveProgram ==
    /\ Cardinality(Alive(objs, "program")) <= 1
    /\ Attached => Alive(objs, "program") = {program.id}
    /\ (last.op = "render" /\ last.renderHook # << >>)
          => /\ program.id \in Alive(objs, "program")
             /\ \A i \in DOMAIN last.glCalls :
                   last.glCalls[i].fn = "useProgram"
                      => last.glCalls[i].obj \in Alive(objs, "program")

\* C8 witness: the render hook ran on an attached controller.
C8_Witness ==
    /\ Attached
    /\ last.op = "render"
    /\ last.renderHook # << >>
    /\ Len(CallsTo("useProgram")) = 1

\* C9: render on a controller that holds no program runs no render hook,
\* does not query the tile cache, issues no call and raises nothing.
C9_RenderNoProgramNoOp ==
    (last.op = "render" /\ program.id = NULL)
       => /\ last.renderHook = << >>
          /\ last.cacheQueries = 0
          /\ last.glCalls = << >>
          /\ last.thrown = NoError

\* C9 witness: render after an attach whose setup hook raised (host and tile
\* cache bound, no program).
C9_Witness ==
    /\ last.op = "render"
    /\ program.id = NULL
    /\ map # NULL
    /\ sourceCache # NULL

\* The tiles of a list that have a texture, in order.
Textured(tiles) == SelectSeq(tiles, LAMBDA t : t.texture # NULL)

\* C10: one run of the default render hook draws each textured tile of its
\* list exactly once, as 6 vertices of triangles, binds exactly their
\* textures and writes exactly their matrices, in list order, does nothing
\* for a tile without a texture, and raises nothing.
C10_TileSkipOnMissingTexture ==
    (last.op = "render" /\ last.renderHook # << >>)
       => LET want  == Textured(last.renderHook[1])
              draws == CallsTo("drawArrays")
              binds_ == CallsTo("bindTexture")
              mats  == CallsTo("uniformMatrix4fv")
          IN  /\ last.thrown = NoError
              /\ Len(draws) = Len(want)
              /\ \A i \in DOMAIN draws :
                    draws[i].name = "TRIANGLES" /\ draws[i].v = 6
              /\ Len(binds_) = Len(want)
              /\ \A i \in DOMAIN binds_ : binds_[i].obj = want[i].texture
              /\ Len(mats) = Len(want)
              /\ \A i \in DOMAIN mats : mats[i].obj = want[i].projMatrix

\* C10 witness: a render whose list holds a tile with a texture and a tile
\* without one.
C10_Witness ==
    /\ last.op = "render"
    /\ last.renderHook # << >>
    /\ \E i, j \in DOMAIN last.renderHook[1] :
          /\ last.renderHook[1][i].texture # NULL
          /\ last.renderHook[1][j].texture = NULL

\* The writes of the last handler to the float uniform `name`.
UniformWrites(name) ==
    SelectSeq(last.glCalls, LAMBDA c : c.fn = "uniform1f" /\ c.name = name)

\* C11: one run of the default render hook writes the X threshold uniform
\* exactly once, with offsetX times the viewport width, and the Y threshold
\* uniform exactly once, with offsetY times the viewport height, however many
\* tiles it draws; offsets {0.5, 0.25} in an 800 by 400 viewport give 400
\* and 100 pixels.
C11_ViewportPixelConversion ==
    (last.op = "render" /\ last.renderHook # << >>)
       => LET xs == UniformWrites("uOffsetX")
              ys == UniformWrites("uOffsetY")
          IN  /\ Len(xs) = 1
              /\ Len(ys) = 1
              /\ xs[1].v = data.offsetX * mapWidth
              /\ ys[1].v = data.offsetY * mapHeight
              /\ (data = Offset(<< 2, 1 >>) /\ mapWidth = 800 /\ mapHeight = 400)
                    => /\ xs[1].v = 400 * OffsetDen
                       /\ ys[1].v = 100 * OffsetDen

\* C11 witness: the render hook ran with offsets {0.5, 0.25} in an 800 by
\* 400 viewport and drew two tiles.
C11_Witness ==
    /\ last.op = "render"
    /\ last.renderHook # << >>
    /\ data = Offset(<< 2, 1 >>)
    /\ mapWidth = 800
    /\ mapHeight = 400
    /\ Len(CallsTo("drawArrays")) = 2
    /\ Len(UniformWrites("uOffsetX")) = 1

\* The step measured the container: an attach that ran to its end, or a
\* resize notification that reached the controller.
Measured ==
    \/ last.op = "onAdd" /\ last.thrown = NoError
    \/ last.op = "resize" /\ last.handlers > 0

\* C12: in every interleaving of offset updates, resizes and frames, the
\* stored offset is the one of the most recent updateData (it changes in no
\* other step, so it is the constructor's until then), the stored size is
\* the most recent container measurement, and every run of the render hook
\* is handed exactly these; with offsets {1, 1} the hook sets both
\* thresholds to the full viewport width and height and draws every
\* textured tile of its list.
C12_LatestStateReads ==
    [][ /\ IF last'.op = "updateData"
           THEN data' = last'.arg.data
           ELSE data' = data
        /\ IF Measured'
           THEN mapWidth' = last'.arg.width /\ mapHeight' = last'.arg.height
           ELSE mapWidth' = mapWidth /\ mapHeight' = mapHeight
        /\ (last'.op = "render" /\ last'.renderHook # << >>)
              => /\ last'.arg.data = data
                 /\ last'.arg.width = mapWidth
                 /\ last'.arg.height = mapHeight
                 /\ data = Offset(<< 4, 4 >>)
                       => /\ UniformWrites("uOffsetX")'[1].v = mapWidth * OffsetDen
                          /\ UniformWrites("uOffsetY")'[1].v = mapHeight * OffsetDen
                          /\ Len(CallsTo("drawArrays")') =
                                Len(Textured(last'.renderHook[1]))
      ]_vars

\* C12 witness: the controller was updated to offsets {1, 1}, its container
\* is 400 by 800 after a resize or attach, and the render hook ran with
\* these, setting the X threshold to 400 pixels and drawing a tile.
C12_Witness ==
    /\ last.op = "render"
    /\ last.renderHook # << >>
    /\ last.arg = [NoArg EXCEPT !.data = Offset(<< 4, 4 >>), !.width = 400,
                                !.height = 800]
    /\ UniformWrites("uOffsetX")[1].v = 400 * OffsetDen
    /\ UniformWrites("uOffsetY")[1].v = 800 * OffsetDen
    /\ Len(CallsTo("drawArrays")) >= 1

\* C13: updateData on an attached controller stores the offset it is given
\* as it is, with no validation or clamping, and asks the host for exactly
\* one repaint.
C13_UpdateDataStoresAndRepaints ==
    (last.op = "updateData" /\ Attached)
       => /\ data = last.arg.data
          /\ last.repaints = 1
          /\ last.thrown = NoError

\* C13 witness: an attached controller was given offsets outside 0..1
\* ({1.25, -0.25}).
C13_Witness ==
    /\ last.op = "updateData"
    /\ Attached
    /\ last.arg.data = Offset(<< 5, 0 - 1 >>)
    /\ last.repaints = 1

\* C14: updateData changes the stored offset and nothing else: the objects
\* of the rendering context, the stored program, the registered listeners,
\* the registered source, the viewport size and every other field stay as
\* they were, the step issues no call to the rendering context and no tile
\* cache request, and its only request to the host is at most one repaint.
C14_UpdateDataFrame ==
    [][ last'.op = "updateData"
           => /\ objs' = objs
              /\ program' = program
              /\ mapListeners' = mapListeners
              /\ srcListeners' = srcListeners
              /\ sourceRegistered' = sourceRegistered
              /\ observing' = observing
              /\ mapWidth' = mapWidth
              /\ mapHeight' = mapHeight
              /\ << map, gl, tileSource, sourceCache, observer >>' =
                    << map, gl, tileSource, sourceCache, observer >>
              /\ last'.glCalls = << >>
              /\ last'.cacheUpdates = 0
              /\ last'.cacheQueries = 0
              /\ last'.repaints = IF map = NULL THEN 0 ELSE 1
      ]_vars

\* C14 witness: updateData changed the offset of an attached controller
\* that holds a live program and buffer, listeners and a registered source.
C14_Witness ==
    /\ last.op = "updateData"
    /\ Attached
    /\ program.id \in Alive(objs, "program")
    /\ program.vertexBuffer \in Alive(objs, "buffer")
    /\ mapListeners # {}
    /\ sourceRegistered
    /\ data = Offset(<< 2, 1 >>)

\* C15: while the controller is attached, every 'move' notification and
\* every 'zoom' notification of the host results in exactly one request to
\* the tile cache to update for the host's current transform.
C15_MoveZoomRefresh ==
    (Attached /\ last.op \in {"move", "zoom"})
       => /\ last.cacheUpdates = 1
          /\ last.thrown = NoError

\* C16: a fragment at window position (x, y) of a drawn tile is kept if and
\* only if x/dpr <= offsetX * width and y/dpr <= offsetY * height, for the
\* stored offsets and viewport size of the render call that drew it, and is
\* discarded otherwise; and a kept fragment stays kept under every pair of
\* offsets that is at least as large in both components, with the same
\* width, height and pixel ratio.
C16_ShadingRuleMonotone ==
    last.op = "fragment"
       => LET f == last.frag
          IN  /\ f.kept <=>
                    /\ f.x * OffsetDen <= data.offsetX * mapWidth * f.dpr * FragDen
                    /\ f.y * OffsetDen <= data.offsetY * mapHeight * f.dpr * FragDen
              /\ \A p \in OffsetChoices :
                    (p[1] >= data.offsetX /\ p[2] >= data.offsetY /\ f.kept)
                       => fragmentShader(f.x, f.y, f.dpr * OffsetDen,
                             vertexShader(p[1] * mapWidth, p[2] * mapHeight))

\* C16 witness: with offsets {0.5, 0.25} in an 800 by 400 viewport at pixel
\* ratio 1 the fragment of column 399, row 99 is kept; it is still kept at
\* offsets {1, 1}, while at {0, 0} the shader discards it.
C16_Witness ==
    /\ last.op = "fragment"
    /\ last.frag = [x |-> 799, y |-> 199, dpr |-> 1, kept |-> TRUE]
    /\ data = Offset(<< 2, 1 >>)
    /\ mapWidth = 800
    /\ mapHeight = 400
    /\ ~ fragmentShader(799, 199, OffsetDen, vertexShader(0, 0))

\* The last onRemove ran the statement `step`.
Ran(step) == \E i \in DOMAIN last.steps : last.steps[i] = step

\* C17: after onRemove on a controller whose onAdd was started, whether it
\* ran to its end or its setup hook raised, the host, rendering context,
\* tile source, tile cache, program and resize observer references are all
\* null, no resize observer of the controller is connected, and the overlay
\* source is not registered with the host.
C17_DetachFinalState ==
    (last.op = "onRemove" /\ attaches > 0)
       => /\ map = NULL
          /\ gl = NULL
          /\ tileSource = NULL
          /\ sourceCache = NULL
          /\ program = NoProgram
          /\ observer = NULL
          /\ observing = {}
          /\ ~sourceRegistered

\* C17 witness: the detach that follows an attach whose setup hook raised
\* (only shaders were ever created): it removed the source that attach had
\* registered, found no program to delete, and left every reference null.
C17_Witness ==
    /\ last.op = "onRemove"
    /\ attaches = 1
    /\ objs # << >>
    /\ \A h \in DOMAIN objs : objs[h].kind = "shader"
    /\ Ran("map.removeSource")
    /\ ~Ran("gl.deleteProgram")
    /\ map = NULL
    /\ ~sourceRegistered

\* In the last onRemove statement a ran before statement b, if both ran.
Before(a, b) ==
    \A i, j \in DOMAIN last.steps :
       (last.steps[i] = a /\ last.steps[j] = b) => i < j

GpuDeletions == { "gl.deleteBuffer", "gl.deleteProgram" }
Removals == { "map.off(move)", "map.off(zoom)", "tileSource.off(data)",
              "map.removeSource" }
Nullings == { "map=null", "gl=null", "tileSource=null", "sourceCache=null",
              "program=null", "observer=null" }

\* The deletions onRemove logged are the calls it made on the rendering
\* context, and there the buffer goes before the program.
DeletionsAsLogged ==
    /\ Len(CallsTo("deleteBuffer")) = (IF Ran("gl.deleteBuffer") THEN 1 ELSE 0)
    /\ Len(CallsTo("deleteProgram")) = (IF Ran("gl.deleteProgram") THEN 1 ELSE 0)
    /\ Len(last.glCalls) = Len(CallsTo("deleteBuffer")) + Len(CallsTo("deleteProgram"))
    /\ \A i, j \in DOMAIN last.glCalls :
          (last.glCalls[i].fn = "deleteBuffer"
              /\ last.glCalls[j].fn = "deleteProgram") => i < j

\* C18: within one onRemove the vertex buffer is deleted before the program,
\* both deletions are made before the rendering context reference is nulled,
\* every reference of the controller is nulled only after the deletions, and
\* the listener removal calls and the source removal come before them.
C18_DetachOrdering ==
    last.op = "onRemove"
       => /\ DeletionsAsLogged
          /\ Before("gl.deleteBuffer", "gl.deleteProgram")
          /\ \A d \in GpuDeletions :
                /\ Before(d, "gl=null")
                /\ \A n \in Nullings : Before(d, n)
                /\ \A r \in Removals : Before(r, d)

\* C18, amended: as above for the host, rendering context, tile source,
\* tile cache and program references; the resize observer reference is
\* nulled right after the observer is disconnected, before the deletions.
C18_DetachOrderingAmended ==
    last.op = "onRemove"
       => /\ DeletionsAsLogged
          /\ Before("gl.deleteBuffer", "gl.deleteProgram")
          /\ \A d \in GpuDeletions :
                /\ Before(d, "gl=null")
                /\ \A n \in Nullings \ {"observer=null"} : Before(d, n)
                /\ \A r \in Removals : Before(r, d)
                /\ Before("observer.disconnect", "observer=null")
                /\ Before("observer=null", d)

\* C18 witness: the detach of an attached controller: it called off for all
\* three listeners, removed the source, disconnected the observer, deleted
\* the buffer and the program, and nulled its references.
C18_Witness ==
    /\ last.op = "onRemove"
    /\ \A r \in Removals : Ran(r)
    /\ Ran("observer.disconnect")
    /\ \A d \in GpuDeletions : Ran(d)
    /\ \A n \in Nullings : Ran(n)
    /\ Len(last.glCalls) = 2

\* How many times the last handler wrote the projection matrix of tile t,
\* which the render hook does once for each tile it draws.
DrawsOf(t) ==
    Len(SelectSeq(last.glCalls,
                  LAMBDA c : c.fn = "uniformMatrix4fv" /\ c.obj = 200 + t))

\* C19: a frame whose render hook runs draws no visible tile that has no
\* texture and raises nothing; a content data event makes the controller
\* ask the tile cache to update; and every visible tile that has its
\* texture by the time of a frame is drawn in that frame, once.
C19_DrawnOnceTextureArrives ==
    /\ (last.op = "render" /\ last.renderHook # << >>)
          => /\ last.thrown = NoError
             /\ \A i \in DOMAIN visible :
                   DrawsOf(visible[i]) = (IF visible[i] \in loaded THEN 1 ELSE 0)
             /\ Len(CallsTo("drawArrays")) = Cardinality(loaded)
    /\ (last.op = "data" /\ last.arg.type = "content")
          => /\ last.cacheUpdates >= 1
             /\ last.thrown = NoError

\* C19 witness: a frame that draws tile 1, whose texture has arrived, and
\* not the visible tile 2, whose texture has not.
C19_Witness ==
    /\ last.op = "render"
    /\ last.renderHook # << >>
    /\ visible = << 1, 2 >>
    /\ loaded = {1}
    /\ DrawsOf(1) = 1
    /\ DrawsOf(2) = 0
    /\ last.thrown = NoError

\* C20: a data event of the overlay source makes the controller ask the
\* tile cache to update if and only if its sourceDataType is 'content'; an
\* event of any other type makes no tile cache request; and no data event
\* issues a call to the rendering context, runs a hook or changes a field
\* of the controller.
C20_DataDiscriminator ==
    [][ last'.op = "data"
           => /\ (last'.cacheUpdates >= 1) <=> (last'.arg.type = "content")
              /\ last'.arg.type = "content" => last'.cacheUpdates = last'.handlers
              /\ last'.glCalls = << >>
              /\ last'.renderHook = << >>
              /\ last'.preHook = << >>
              /\ last'.repaints = 0
              /\ objs' = objs
              /\ << map, gl, tileSource, program, sourceCache, data, mapWidth,
                    mapHeight, observer, preRenderCallback >>' =
                 << map, gl, tileSource, program, sourceCache, data, mapWidth,
                    mapHeight, observer, preRenderCallback >>
      ]_vars

\* C20 witness: a metadata event reached the data listener of an attached
\* controller and made no tile cache request.
C20_Witness ==
    /\ last.op = "data"
    /\ last.arg.type = "metadata"
    /\ Attached
    /\ last.handlers = 1
    /\ last.cacheUpdates = 0

\* C21: prerender on an attached controller that was given a pre-render
\* hook calls the hook exactly once, with the tiles of the tile cache's
\* visible coordinates in the cache's order, after one query of the cache;
\* without a hook it queries nothing, calls nothing and issues no call to
\* the rendering context. Neither raises.
C21_PrerenderHook ==
    (last.op = "prerender" /\ Attached)
       => /\ last.thrown = NoError
          /\ last.glCalls = << >>
          /\ IF preRenderCallback
             THEN /\ Len(last.preHook) = 1
                  /\ last.cacheQueries = 1
                  /\ Len(last.preHook[1]) = Len(visible)
                  /\ \A i \in DOMAIN visible :
                        last.preHook[1][i] = getTile(visible[i], loaded)
             ELSE /\ last.preHook = << >>
                  /\ last.cacheQueries = 0

\* C21 witness: the pre-render hook of an attached controller was called
\* with two tiles, the second of them textured.
C21_Witness ==
    /\ last.op = "prerender"
    /\ Attached
    /\ preRenderCallback
    /\ Len(last.preHook) = 1
    /\ Len(last.preHook[1]) = 2
    /\ last.preHook[1][1].id = 1
    /\ last.preHook[1][2].texture # NULL

\* C22: prerender on a controller that was given a pre-render hook but has
\* no tile cache bound (before attach, after detach) raises nothing and
\* does not call the hook.
C22_PrerenderUnboundCache ==
    (last.op = "prerender" /\ preRenderCallback /\ sourceCache = NULL)
       => /\ last.thrown = NoError
          /\ last.preHook = << >>

\* C23: a 'move' event or a content data event whose handler runs while the
\* controller has no tile cache bound (after detach) asks for no tile cache
\* update and raises nothing.
C23_RefreshAfterDetach ==
    (/\ last.op \in {"move", "data"}
     /\ last.op = "data" => last.arg.type = "content"
     /\ last.handlers > 0
     /\ sourceCache = NULL)
       => /\ last.cacheUpdates = 0
          /\ last.thrown = NoError

\* The calls of the last handler before its j-th that write the float
\* uniform `name`, as indices.
WritesBefore(j, name) ==
    { i \in 1 .. (j - 1) :
         last.glCalls[i].fn = "uniform1f" /\ last.glCalls[i].name = name }

\* The uniform `name` holds v at the j-th call of the last handler, by a
\* write of this same handler.
HoldsAt(j, name, v) ==
    LET w == WritesBefore(j, name)
    IN  /\ w # {}
        /\ last.glCalls[CHOOSE i \in w : \A k \in w : k <= i].v = v

\* C24: at every draw call the X threshold uniform of the stored program
\* holds the controller's offsetX times its viewport width and the Y
\* threshold uniform offsetY times its viewport height, written by the
\* same render call after it made the stored program current; the setup
\* hook, which writes the offsets as given, issues no draw call. So no draw
\* call ever uses the values the setup hook wrote.
C24_ThresholdsAtDraw ==
    /\ \A j \in DOMAIN last.glCalls :
          last.glCalls[j].fn = "drawArrays"
             => /\ last.op = "render"
                /\ last.glCalls[1] = Call("useProgram", "", program.id, 0)
                /\ HoldsAt(j, "uOffsetX", data.offsetX * mapWidth)
                /\ HoldsAt(j, "uOffsetY", data.offsetY * mapHeight)
    /\ (last.op = "onAdd" /\ last.thrown = NoError)
          => /\ UniformWrites("uOffsetX")[1].v = data.offsetX
             /\ UniformWrites("uOffsetY")[1].v = data.offsetY

\* C24 witness: a frame that draws two tiles with offsets {0.5, 0.25} on a
\* 400 by 800 viewport: thresholds 200 and 200 pixels, where the setup hook
\* had written 0.5 and 0.25.
C24_Witness ==
    /\ last.op = "render"
    /\ Len(CallsTo("drawArrays")) = 2
    /\ data = Offset(<< 2, 1 >>)
    /\ mapWidth = 400
    /\ mapHeight = 800
    /\ \A j \in DOMAIN last.glCalls :
          last.glCalls[j].fn = "drawArrays"
             => /\ HoldsAt(j, "uOffsetX", 200 * OffsetDen)
                /\ HoldsAt(j, "uOffsetY", 200 * OffsetDen)

\* The controller is not attached: never attached yet, or detached since
\* (no resize observer, and no overlay source of its own with the host).
NotAttached == ~Attached /\ ~sourceRegistered

\* C25: updateData on a controller that is not attached raises nothing,
\* requests no repaint and stores the offset it is given; a later attach
\* hands the setup hook the stored offset (an attach right after an
\* updateData hands it that call's argument), and the render hook gets the
\* stored offset as well.
C25_UpdateDataUnattached ==
    [][ /\ (last'.op = "updateData" /\ NotAttached)
              => /\ last'.thrown = NoError
                 /\ last'.repaints = 0
                 /\ data' = last'.arg.data
        /\ (last'.op = "onAdd" /\ last'.thrown = NoError)
              => /\ UniformWrites("uOffsetX")'[1].v = data.offsetX
                 /\ UniformWrites("uOffsetY")'[1].v = data.offsetY
                 /\ last.op = "updateData"
                       => /\ UniformWrites("uOffsetX")'[1].v = last.arg.data.offsetX
                          /\ UniformWrites("uOffsetY")'[1].v = last.arg.data.offsetY
        /\ (last'.op = "render" /\ last'.renderHook # << >>)
              => last'.arg.data = data
      ]_vars

\* C25 witness: before any attach the controller was given offsets
\* {1.25, -0.25}: stored, no repaint requested, nothing raised.
C25_Witness ==
    /\ last.op = "updateData"
    /\ NotAttached
    /\ attaches = 0
    /\ data = Offset(<< 5, 0 - 1 >>)
    /\ last.repaints = 0
    /\ last.thrown = NoError

====
